---- MODULE Spec2Model ----
(***************************************************************************)
(* Rating replay (Elo), rating persistence and feature derivation of the   *)
(* sports analytics and forecasting system.                                 *)
(*                                                                         *)
(* Numbers: the source computes in binary floating point.  The model uses  *)
(* fixed point: a rating is an integer count of 1/RatingScale rating       *)
(* points, an expected score an integer count of 1/ProbScale.  The         *)
(* logistic curve 1/(1+10^(-x/400)) is tabulated every TableStep rating    *)
(* points and interpolated linearly.                                       *)
(***************************************************************************)
EXTENDS Integers, Sequences, FiniteSets, TLC

(***************************************************************************)
(* Bounds of the model.                                                    *)
(***************************************************************************)
MaxGames == 2
NumCmds == 2
NumCalls == 2
MaxWrites == 1

(***************************************************************************)
(* Values.                                                                 *)
(***************************************************************************)
\* SQL NULL / Python None in a numeric column or variable.
Null == 0 - 999999

RatingScale == 100 * 100
ProbScale == 100 * 100

\* A team identifier is a string; the model keeps it as the sequence of its
\* pieces, a league prefix "<LEAGUE>_" being one piece.
EmptyId == << >>
A == <<"A">>
B == <<"B">>
C == <<"C">>
D == <<"D">>
NFL_A == <<"NFL_", "A">>
NFL_B == <<"NFL_", "B">>

Prefix(league) == IF league = "NFL" THEN "NFL_" ELSE "NCAA_"

\* ratings.py normalize_team_id
normalize_team_id(team_id, league) ==
    IF team_id = EmptyId THEN team_id
    ELSE IF Head(team_id) = Prefix(league) THEN Tail(team_id)
    ELSE team_id

\* Python truthiness of a string
Truthy(team_id) == team_id # EmptyId

(***************************************************************************)
(* Elo arithmetic.                                                         *)
(***************************************************************************)
k_factor_default == 20
base_rating_default == 1500
mean_reversion_factor_pct == 33
home_advantage_elo == 55
\* ratings.py 129: a season after this one reads the previous season's rows
FirstSeason == 2000

TableStep == 400 \div 16
TableLow == 0 - 400
\* 1/(1+10^(-x/400)) * ProbScale for x = -400, -375, ..., 400
LogisticTable ==
    << 909, 1035, 1177, 1334, 1510, 1704, 1917, 2150, 2403, 2675, 2966,
       3275, 3599, 3937, 4285, 4641, 5000, 5359, 5715, 6063, 6401, 6725,
       7034, 7325, 7597, 7850, 8083, 8296, 8490, 8666, 8823, 8965, 9091 >>

\* x is a rating difference in 1/RatingScale points
Logistic(x) ==
    LET step == TableStep * RatingScale
        low  == TableLow * RatingScale
        n    == Len(LogisticTable)
    IN  IF x <= low THEN LogisticTable[1]
        ELSE IF x >= low + (n - 1) * step THEN LogisticTable[n]
        ELSE LET k  == (x - low) \div step
                 x0 == low + k * step
                 y0 == LogisticTable[k + 1]
                 y1 == LogisticTable[k + 2]
             IN  y0 + ((y1 - y0) * ((x - x0) \div 100)) \div (step \div 100)

\* home_expected = 1.0 / (1.0 + 10.0 ** ((R_away - (R_home + H)) / 400.0))
HomeExpected(r_home, r_away) ==
    Logistic((r_home + home_advantage_elo * RatingScale) - r_away)

\* the away side's expectation taken from its own rating difference, without
\* the home side's offset
AwayExpectedOwnCurve(r_home, r_away) == Logistic(r_away - r_home)

AwayExpected(r_home, r_away) == ProbScale - HomeExpected(r_home, r_away)

HomeActual(g) ==
    IF g.home_score > g.away_score THEN ProbScale
    ELSE IF g.home_score < g.away_score THEN 0
    ELSE ProbScale \div 2

AwayActual(g) ==
    IF g.home_score > g.away_score THEN 0
    ELSE IF g.home_score < g.away_score THEN ProbScale
    ELSE ProbScale \div 2

\* change = k * (actual - expected), in 1/RatingScale points
\* (RatingScale = ProbScale, so the product needs no rescaling)
HomeChange(k, g, r_home, r_away) ==
    k * (HomeActual(g) - HomeExpected(r_home, r_away))

AwayChange(k, g, r_home, r_away) ==
    k * (AwayActual(g) - AwayExpected(r_home, r_away))

\* prev_rating * (1 - f) + base_rating * f
MeanRevert(prev_rating, base_rating) ==
    (prev_rating * (100 - mean_reversion_factor_pct)
       + base_rating * mean_reversion_factor_pct) \div 100

(***************************************************************************)
(* The stored tables (database.py).                                        *)
(***************************************************************************)
Leagues == {"NFL", "NCAA"}

\* games.game_id is the primary key; as in the ingested identifiers
\* ("NFL_2023_11_BAL_CIN") it is made of league, season, week and teams.
GameId(league, season, week, home, away) == <<league, season, week, home, away>>

Game(league, season, week, date, home, away, hs, as, completed) ==
    [ game_id      |-> GameId(league, season, week, home, away),
      league       |-> league,
      season       |-> season,
      week         |-> week,
      date         |-> date,
      home_team_id |-> home,
      away_team_id |-> away,
      home_score   |-> hs,
      away_score   |-> as,
      completed    |-> completed,
      is_neutral_site |-> FALSE ]

\* team_stats row, restricted to the columns the feature code reads
TeamStats(team_id, season, week, league, point_differential) ==
    [ team_id            |-> team_id,
      season             |-> season,
      week               |-> week,
      league             |-> league,
      point_differential |-> point_differential ]

\* teams row
Team(team_id, league) == [ team_id |-> team_id, league |-> league ]

\* The columns the TeamRating class declares (database.py 267-277).
TeamRatingColumns ==
    { "id", "team_id", "season", "week", "league",
      "elo_rating", "srs_rating", "created_at" }

\* team_ratings row, restricted to the columns the rating code reads
TeamRating(team_id, season, week, league, elo, srs) ==
    [ team_id    |-> team_id,
      season     |-> season,
      week       |-> week,
      league     |-> league,
      elo_rating |-> elo,
      srs_rating |-> srs ]

RECURSIVE SubsetsUpTo(_, _)
SubsetsUpTo(S, n) ==
    IF n = 0 THEN { {} }
    ELSE LET P == SubsetsUpTo(S, n - 1)
         IN  P \cup { T \cup {a} : T \in P, a \in S }

\* primary key of games
UniqueGameIds(S) ==
    \A g1 \in S, g2 \in S : g1.game_id = g2.game_id => g1 = g2

\* database.py 196-197, 229, 268: the identifiers of games, team_stats and
\* team_ratings rows are foreign keys into teams
TeamsReferenced(game_rows, rating_rows, stats_rows) ==
    { Team(id, "NFL") :
        id \in { g.home_team_id : g \in game_rows }
               \cup { g.away_team_id : g \in game_rows }
               \cup { r.team_id : r \in rating_rows }
               \cup { x.team_id : x \in stats_rows } }

Range(q) == { q[i] : i \in DOMAIN q }

\* getattr on a loaded row: a declared column that was never set reads NULL
Col(r, name) == IF name \in DOMAIN r THEN r[name] ELSE Null

(***************************************************************************)
(* State.                                                                  *)
(***************************************************************************)
VARIABLES
    games,          \* table games
    teams,          \* table teams
    team_ratings,   \* table team_ratings, committed rows
    cmd,            \* the runs of scripts/compute_ratings.py, one per command
    team_stats,     \* table team_stats
    byid,           \* the calls of compute_game_features_by_id
    wk,             \* the last call of FeatureEngineer.compute_game_features
    writes          \* number of games ingested since the start

vars == <<games, teams, team_ratings, team_stats, cmd, byid, wk, writes>>

Cmds == 1 .. NumCmds
Calls == 1 .. NumCalls

EmptyMap == [t \in {} |-> 0]

(***************************************************************************)
(* compute_elo_ratings (ratings.py 62-244) under the command               *)
(* scripts/compute_ratings.py compute (70-141).                            *)
(***************************************************************************)

\* ratings.py 96-101: the WHERE clause of the replay's query
ReplayGames(league, season) ==
    { g \in games : /\ g.league = league
                    /\ g.season = season
                    /\ g.completed
                    /\ g.home_score # Null
                    /\ g.away_score # Null }

\* ratings.py 102: ORDER BY week, date
WeekDateLeq(g1, g2) ==
    \/ g1.week < g2.week
    \/ g1.week = g2.week /\ g1.date <= g2.date

\* An ORDER BY leaves the order of rows with equal keys to the store: every
\* sequence of the rows that respects the keys is a possible answer.
Orders(S, Leq(_, _)) ==
    LET n == Cardinality(S)
    IN  { q \in [1 .. n -> S] :
            /\ \A i \in 1 .. n, j \in 1 .. n : q[i] = q[j] => i = j
            /\ \A i \in 1 .. n, j \in 1 .. n : i < j => Leq(q[i], q[j]) }

\* ratings.py 118-125: the keys of team_info
TeamInfoKeys(league) ==
    { normalize_team_id(t.team_id, league) :
        t \in { u \in teams : u.league = league
                              /\ Truthy(normalize_team_id(u.team_id, league)) } }

\* ratings.py 131-140: the previous season's rows whose rating is read
PrevRows(league, season) ==
    { r \in team_ratings : /\ r.league = league
                           /\ r.season = season - 1
                           /\ Truthy(normalize_team_id(r.team_id, league)) }

\* ratings.py 137: r.rating raises AttributeError unless the class has the
\* attribute
PrevRatingReadable == "rating" \in TeamRatingColumns

\* ratings.py 136-140: the dict comprehension keeps, for a key that several
\* rows share, the row the store returns last
PrevRatingsChoices(league, season) ==
    LET rows == PrevRows(league, season)
        keys == { normalize_team_id(r.team_id, league) : r \in rows }
    IN  { f \in [keys -> { Col(r, "rating") : r \in rows }] :
            \A k \in keys : \E r \in rows :
                /\ normalize_team_id(r.team_id, league) = k
                /\ Col(r, "rating") = f[k] }

\* ratings.py 228-239: the keyword arguments of the TeamRating the replay builds
EloKwargs(league, season, stored_team_id, rating, games_count) ==
    [ league      |-> league,
      season      |-> season,
      team_id     |-> stored_team_id,
      team_abbr   |-> "abbr",
      team_name   |-> "name",
      rating      |-> rating,
      as_of_date  |-> "today",
      games_count |-> games_count,
      created_at  |-> "today",
      updated_at  |-> "today" ]

\* The constructor of a declarative class (database.py 37, 258) accepts only
\* keyword arguments that are attributes of the class and raises TypeError
\* for any other.
ConstructorAccepts(kwargs) == DOMAIN kwargs \subseteq TeamRatingColumns

\* ratings.py 219-226: the identifier a rating-table key is stored under
StoredTeamIdChoices(normalized_id, league) ==
    LET originals == { t.team_id : t \in { u \in teams :
                          /\ u.league = league
                          /\ normalize_team_id(u.team_id, league) = normalized_id } }
    IN  IF originals = {} THEN { <<Prefix(league)>> \o normalized_id }
        ELSE originals

\* ratings.py 207-240: the snapshots of one replay, one per rating-table key
Snapshots(league, season, ratings, counts, stored) ==
    { EloKwargs(league, season, stored[t], ratings[t], counts[t]) :
        t \in DOMAIN ratings }

StoredChoices(league, keys) ==
    { f \in [keys -> UNION { StoredTeamIdChoices(t, league) : t \in keys }] :
        \A t \in keys : f[t] \in StoredTeamIdChoices(t, league) }

\* compute_ratings.py 100-117: one upsert.  An attribute that is no column of
\* the class is not written to the row.
UpsertFields == { "team_abbr", "team_name", "rating", "as_of_date",
                  "games_count", "updated_at" }

UpdatedRow(existing, rating) ==
    LET written == UpsertFields \cap TeamRatingColumns
    IN  [ c \in DOMAIN existing \cup written |->
            IF c \in written THEN rating[c] ELSE existing[c] ]

UpsertOne(table, rating) ==
    LET found == { r \in table : /\ r.league = rating.league
                                 /\ r.season = rating.season
                                 /\ r.team_id = rating.team_id }
    IN  IF found = {}
        THEN { table \cup {rating} }
        ELSE { (table \ {e}) \cup {UpdatedRow(e, rating)} : e \in found }

\* compute_ratings.py 98-119: the loop over the replay's snapshots
RECURSIVE UpsertAll(_, _)
UpsertAll(table, ratings) ==
    IF ratings = {} THEN { table }
    ELSE LET r == CHOOSE x \in ratings : TRUE
         IN  UNION { UpsertAll(t, ratings \ {r}) : t \in UpsertOne(table, r) }

\* One run of the command, at its start (compute_ratings.py 70-82)
CmdStart(league, season, k_factor, base_rating) ==
    [ pc               |-> "query",
      league           |-> league,
      season           |-> season,
      k_factor         |-> k_factor,
      base_rating      |-> base_rating,
      games            |-> << >>,
      i                |-> 1,
      ratings          |-> EmptyMap,
      team_games_count |-> EmptyMap,
      home_change      |-> 0,
      away_change      |-> 0,
      processed        |-> << >>,
      result           |-> {},
      inserted         |-> 0,
      error            |-> "",
      exit             |-> Null ]

Ended(p) == cmd[p].pc \in {"done", "failed"}

\* compute_ratings.py 138-141 with database.py 106-111: the exception leaves
\* get_session (rollback, close) and the command exits with status 1
Raise(c, what) == [c EXCEPT !.pc = "failed", !.error = what, !.exit = 1]

\* compute_ratings.py 92-94, 136 with database.py 105: the command returns
\* and get_session commits
Return(c) == [c EXCEPT !.pc = "done", !.exit = 0]

\* the query without the early return on an empty list
QueryGamesNoEarlyReturn(p) ==
    /\ cmd[p].pc = "query"
    /\ \E q \in Orders(ReplayGames(cmd[p].league, cmd[p].season), WeekDateLeq) :
          cmd' = [cmd EXCEPT ![p] = [@ EXCEPT !.pc = "init", !.games = q]]
    /\ UNCHANGED <<games, teams, team_ratings, team_stats, byid, wk, writes>>

\* ratings.py 95-108
QueryGames(p) ==
    /\ cmd[p].pc = "query"
    /\ \E q \in Orders(ReplayGames(cmd[p].league, cmd[p].season), WeekDateLeq) :
          cmd' = [cmd EXCEPT ![p] =
                    IF Len(q) = 0 THEN Return(@)
                    ELSE [@ EXCEPT !.pc = "init", !.games = q]]
    /\ UNCHANGED <<games, teams, team_ratings, team_stats, byid, wk, writes>>

\* ratings.py 110-156
InitRatings(p) ==
    LET c    == cmd[p]
        keys == TeamInfoKeys(c.league)
        rows == PrevRows(c.league, c.season)
    IN  /\ c.pc = "init"
        /\ IF c.season > FirstSeason /\ rows # {} /\ ~PrevRatingReadable
           THEN cmd' = [cmd EXCEPT ![p] = Raise(@, "AttributeError")]
           ELSE IF c.season > FirstSeason /\ \E r \in rows : Col(r, "rating") = Null
           THEN cmd' = [cmd EXCEPT ![p] = Raise(@, "TypeError")]
           ELSE \E prev \in (IF c.season > FirstSeason
                              THEN PrevRatingsChoices(c.league, c.season)
                              ELSE {EmptyMap}) :
                  cmd' = [cmd EXCEPT ![p] =
                    [@ EXCEPT
                       !.pc = "loop",
                       !.ratings = [t \in keys |->
                           IF t \in DOMAIN prev
                           THEN MeanRevert(prev[t], c.base_rating)
                           ELSE c.base_rating],
                       !.team_games_count = [t \in keys |-> 0]]]
        /\ UNCHANGED <<games, teams, team_ratings, team_stats, byid, wk, writes>>

\* a team seen for the first time entering at half the value
WithTeamHalved(map, t, v) ==
    IF t \in DOMAIN map THEN map ELSE map @@ (t :> (v \div 2))

\* ratings.py 171-177: a team seen for the first time enters at base_rating
WithTeam(map, t, v) ==
    [u \in DOMAIN map \cup {t} |-> IF u \in DOMAIN map THEN map[u] ELSE v]

\* ratings.py 159-205: one iteration of the loop, for a game whose two
\* identifiers normalise
ProcessGame(p) ==
    LET c == cmd[p]
    IN  /\ c.pc = "loop"
        /\ c.i <= Len(c.games)
        /\ LET g  == c.games[c.i]
               h  == normalize_team_id(g.home_team_id, c.league)
               a  == normalize_team_id(g.away_team_id, c.league)
               r0 == WithTeam(WithTeam(c.ratings, h, c.base_rating), a, c.base_rating)
               n0 == WithTeam(WithTeam(c.team_games_count, h, 0), a, 0)
               hc == HomeChange(c.k_factor, g, r0[h], r0[a])
               ac == AwayChange(c.k_factor, g, r0[h], r0[a])
               r1 == [r0 EXCEPT ![h] = @ + hc]
               r2 == [r1 EXCEPT ![a] = @ + ac]
               n1 == [n0 EXCEPT ![h] = @ + 1]
               n2 == [n1 EXCEPT ![a] = @ + 1]
           IN  /\ Truthy(h) /\ Truthy(a)
               /\ cmd' = [cmd EXCEPT ![p] =
                    [@ EXCEPT !.ratings = r2,
                              !.team_games_count = n2,
                              !.home_change = hc,
                              !.away_change = ac,
                              !.processed = Append(@, g.game_id),
                              !.i = @ + 1]]
        /\ UNCHANGED <<games, teams, team_ratings, team_stats, byid, wk, writes>>

\* the skip as a break: the loop ends at the game that does not normalise
SkipGameEndsLoop(p) ==
    LET c == cmd[p]
    IN  /\ c.pc = "loop"
        /\ c.i <= Len(c.games)
        /\ LET g == c.games[c.i]
               h == normalize_team_id(g.home_team_id, c.league)
               a == normalize_team_id(g.away_team_id, c.league)
           IN  /\ ~(Truthy(h) /\ Truthy(a))
               /\ cmd' = [cmd EXCEPT ![p] = [@ EXCEPT !.i = Len(c.games) + 1]]
        /\ UNCHANGED <<games, teams, team_ratings, team_stats, byid, wk, writes>>

\* ratings.py 164-168: a game whose identifier does not normalise is skipped
SkipGame(p) ==
    LET c == cmd[p]
    IN  /\ c.pc = "loop"
        /\ c.i <= Len(c.games)
        /\ LET g == c.games[c.i]
               h == normalize_team_id(g.home_team_id, c.league)
               a == normalize_team_id(g.away_team_id, c.league)
           IN  /\ ~(Truthy(h) /\ Truthy(a))
               /\ cmd' = [cmd EXCEPT ![p] = [@ EXCEPT !.i = @ + 1]]
        /\ UNCHANGED <<games, teams, team_ratings, team_stats, byid, wk, writes>>

\* a command that writes the rows of some of the keys and keeps them when it
\* fails
EmitAndPersistKeepsPartial(p) ==
    LET c == cmd[p]
    IN  /\ c.pc = "loop"
        /\ c.i > Len(c.games)
        /\ IF DOMAIN c.ratings = {}
           THEN /\ cmd' = [cmd EXCEPT ![p] = Return(@)]
                /\ UNCHANGED team_ratings
           ELSE \E stored \in StoredChoices(c.league, DOMAIN c.ratings) :
                  LET result == Snapshots(c.league, c.season, c.ratings,
                                          c.team_games_count, stored)
                  IN  \E part \in SUBSET result :
                        /\ part # {} /\ part # result
                        /\ team_ratings' \in UpsertAll(team_ratings, part)
                        /\ cmd' = [cmd EXCEPT ![p] = Raise(@, "TypeError")]
        /\ UNCHANGED <<games, teams, team_stats, byid, wk, writes>>

\* ratings.py 207-244 and compute_ratings.py 92-119: the snapshots are built
\* and upserted, and the session commits
EmitAndPersist(p) ==
    LET c == cmd[p]
    IN  /\ c.pc = "loop"
        /\ c.i > Len(c.games)
        /\ IF DOMAIN c.ratings = {}
           THEN /\ cmd' = [cmd EXCEPT ![p] = Return(@)]
                /\ UNCHANGED team_ratings
           ELSE \E stored \in StoredChoices(c.league, DOMAIN c.ratings) :
                  LET result == Snapshots(c.league, c.season, c.ratings,
                                          c.team_games_count, stored)
                  IN  IF \E r \in result : ~ConstructorAccepts(r)
                      THEN /\ cmd' = [cmd EXCEPT ![p] = Raise(@, "TypeError")]
                           /\ UNCHANGED team_ratings
                      ELSE /\ team_ratings' \in UpsertAll(team_ratings, result)
                           /\ cmd' = [cmd EXCEPT ![p] =
                                        Return([@ EXCEPT
                                          !.result = result,
                                          !.inserted = Cardinality(team_ratings')
                                                       - Cardinality(team_ratings)])]
        /\ UNCHANGED <<games, teams, team_stats, byid, wk, writes>>

(***************************************************************************)
(* compute_game_features_by_id (feature_engineering.py 258-358).           *)
(***************************************************************************)
base_rating_by_id == 1500
k_factor_by_id == 20

ByIdIdle ==
    [ pc          |-> "idle",
      game_id     |-> << >>,
      game        |-> << >>,
      games       |-> << >>,
      i           |-> 1,
      ratings     |-> EmptyMap,
      home_change |-> 0,
      away_change |-> 0,
      features    |-> << >>,
      error       |-> "" ]

ByIdEnded(f) == byid[f].pc \in {"done", "failed"}

\* feature_engineering.py 296-302: the WHERE clause of the prior games
PriorGames(game) ==
    { g \in games : /\ g.league = game.league
                    /\ g.season = game.season
                    /\ g.date < game.date
                    /\ g.completed
                    /\ g.home_score # Null
                    /\ g.away_score # Null }

\* feature_engineering.py 303: ORDER BY date, week
DateWeekLeq(g1, g2) ==
    \/ g1.date < g2.date
    \/ g1.date = g2.date /\ g1.week <= g2.week

\* an unknown identifier answered with defaulted features
ByIdNotFoundDefaults(f, gid) ==
    /\ byid[f].pc = "idle"
    /\ ~\E g \in games : g.game_id = gid
    /\ byid' = [byid EXCEPT ![f] =
                  [@ EXCEPT !.pc = "done", !.game_id = gid,
                            !.features = [ rating_diff |-> 0, home_field |-> 1,
                                           season |-> 0, week |-> 0 ]]]
    /\ UNCHANGED <<games, teams, team_ratings, team_stats, cmd, wk, writes>>

\* feature_engineering.py 279-284: no game has the identifier
ByIdNotFound(f, gid) ==
    /\ byid[f].pc = "idle"
    /\ ~\E g \in games : g.game_id = gid
    /\ byid' = [byid EXCEPT ![f] =
                  [@ EXCEPT !.pc = "failed", !.game_id = gid, !.error = "ValueError"]]
    /\ UNCHANGED <<games, teams, team_ratings, team_stats, cmd, wk, writes>>

\* feature_engineering.py 279-308: the game and its prior games are loaded
ByIdLoad(f, gid) ==
    /\ byid[f].pc = "idle"
    /\ \E game \in games :
          /\ game.game_id = gid
          /\ \E q \in Orders(PriorGames(game), DateWeekLeq) :
                byid' = [byid EXCEPT ![f] =
                           [@ EXCEPT !.pc = "loop", !.game_id = gid,
                                     !.game = game, !.games = q]]
    /\ UNCHANGED <<games, teams, team_ratings, team_stats, cmd, wk, writes>>

\* feature_engineering.py 311-341: one iteration of the loop
ByIdProcess(f) ==
    LET c == byid[f]
        base == base_rating_by_id * RatingScale
    IN  /\ c.pc = "loop"
        /\ c.i <= Len(c.games)
        /\ LET g  == c.games[c.i]
               h  == g.home_team_id
               a  == g.away_team_id
               r0 == WithTeam(WithTeam(c.ratings, h, base), a, base)
               hc == HomeChange(k_factor_by_id, g, r0[h], r0[a])
               ac == AwayChange(k_factor_by_id, g, r0[h], r0[a])
               r1 == [r0 EXCEPT ![h] = @ + hc]
               r2 == [r1 EXCEPT ![a] = @ + ac]
           IN  byid' = [byid EXCEPT ![f] =
                          [@ EXCEPT !.ratings = r2,
                                    !.home_change = hc,
                                    !.away_change = ac,
                                    !.i = @ + 1]]
        /\ UNCHANGED <<games, teams, team_ratings, team_stats, cmd, wk, writes>>

\* ratings.get(team_id, base_rating)
RatingOr(ratings, t, default) == IF t \in DOMAIN ratings THEN ratings[t] ELSE default

\* the home side's offset carried into the feature
ByIdFeaturesWithHomeAdvantage(game, ratings) ==
    LET base == base_rating_by_id * RatingScale
    IN  [ rating_diff |-> RatingOr(ratings, game.home_team_id, base)
                            + home_advantage_elo * RatingScale
                            - RatingOr(ratings, game.away_team_id, base),
          home_field  |-> 1,
          season      |-> game.season,
          week        |-> game.week ]

\* season and week left out when no prior game was replayed
ByIdFeaturesSparse(game, ratings) ==
    LET base == base_rating_by_id * RatingScale
        diff == RatingOr(ratings, game.home_team_id, base)
                  - RatingOr(ratings, game.away_team_id, base)
    IN  IF DOMAIN ratings = {}
        THEN [ rating_diff |-> diff, home_field |-> 1 ]
        ELSE [ rating_diff |-> diff, home_field |-> 1,
               season |-> game.season, week |-> game.week ]

\* feature_engineering.py 343-358
ByIdFeatures(game, ratings) ==
    LET base == base_rating_by_id * RatingScale
    IN  [ rating_diff |-> RatingOr(ratings, game.home_team_id, base)
                            - RatingOr(ratings, game.away_team_id, base),
          home_field  |-> 1,
          season      |-> game.season,
          week        |-> game.week ]

ByIdReturn(f) ==
    LET c == byid[f]
    IN  /\ c.pc = "loop"
        /\ c.i > Len(c.games)
        /\ byid' = [byid EXCEPT ![f] =
                      [@ EXCEPT !.pc = "done",
                                !.features = ByIdFeatures(c.game, c.ratings)]]
        /\ UNCHANGED <<games, teams, team_ratings, team_stats, cmd, wk, writes>>

(***************************************************************************)
(* The compute_features command (scripts/compute_features.py 58-110).      *)
(***************************************************************************)
\* feature_engineering.py 258-261: the parameters of
\* compute_game_features_by_id
ByIdParameters == { "session", "game_id" }

\* compute_features.py 86: the arguments of the command's call
ByIdCallArguments == { "session", "game_id", "as_of_date" }

\* a Python call raises TypeError for a keyword that is no parameter
CallAccepted(arguments, parameters) == arguments \subseteq parameters

\* compute_features.py 72-81: --as-of omitted (the option's default None) or
\* empty, 'today' in any case, or a string date.fromisoformat parses
AsOfOmitted == "(None)"
IsoDates == { "2025-01-15" }
AsOfArgs == { AsOfOmitted, "", "today", "TODAY", "2025-01-15", "01/15/2025" }
AsOfParses(as_of) == as_of \in { AsOfOmitted, "", "today", "TODAY" } \cup IsoDates

\* feature_engineering.py 308-341 in one piece: the ratings after the prior
\* games q
RECURSIVE ByIdRatingsAfter(_, _)
ByIdRatingsAfter(q, ratings) ==
    IF Len(q) = 0 THEN ratings
    ELSE LET base == base_rating_by_id * RatingScale
             g  == Head(q)
             h  == g.home_team_id
             a  == g.away_team_id
             r0 == WithTeam(WithTeam(ratings, h, base), a, base)
             hc == HomeChange(k_factor_by_id, g, r0[h], r0[a])
             ac == AwayChange(k_factor_by_id, g, r0[h], r0[a])
             r1 == [r0 EXCEPT ![h] = @ + hc]
             r2 == [r1 EXCEPT ![a] = @ + ac]
         IN  ByIdRatingsAfter(Tail(q), r2)

CommandExit(gid, as_of, error, exit, features) ==
    [ pc       |-> "exited",
      game_id  |-> gid,
      as_of    |-> as_of,
      error    |-> error,
      exit     |-> exit,
      features |-> features ]

\* compute_features.py 58-110: one run of the command
ComputeFeaturesCommand(gid, as_of) ==
    /\ wk.pc = "idle"
    /\ IF ~AsOfParses(as_of)
       THEN wk' = CommandExit(gid, as_of, "InvalidDate", 1, << >>)
       ELSE IF ~CallAccepted(ByIdCallArguments, ByIdParameters)
       THEN wk' = CommandExit(gid, as_of, "TypeError", 1, << >>)
       ELSE IF ~\E g \in games : g.game_id = gid
       THEN wk' = CommandExit(gid, as_of, "ValueError", 1, << >>)
       ELSE \E game \in games :
              /\ game.game_id = gid
              /\ \E q \in Orders(PriorGames(game), DateWeekLeq) :
                    wk' = CommandExit(gid, as_of, "", 0,
                             ByIdFeatures(game, ByIdRatingsAfter(q, EmptyMap)))
    /\ UNCHANGED <<games, teams, team_ratings, team_stats, cmd, byid, writes>>

(***************************************************************************)
(* get_team_rating (ratings.py 332-380) and FeatureEngineer                *)
(* (feature_engineering.py 40-231): week-cutoff features.                  *)
(***************************************************************************)
RatingCol(rating_type) == IF rating_type = "elo" THEN "elo_rating" ELSE "srs_rating"

\* ratings.py 359-364: the row of the exact week
ExactWeekRows(team_id, season, week, league) ==
    { r \in team_ratings : /\ r.team_id = team_id
                           /\ r.season = season
                           /\ Col(r, "week") # Null
                           /\ Col(r, "week") = week
                           /\ r.league = league }

\* ratings.py 370-375: the rows of earlier weeks
EarlierWeekRows(team_id, season, week, league) ==
    { r \in team_ratings : /\ r.team_id = team_id
                           /\ r.season = season
                           /\ Col(r, "week") # Null
                           /\ Col(r, "week") < week
                           /\ r.league = league }

\* ORDER BY week DESC ... first(): a row of the greatest week
LatestRows(rows) ==
    { r \in rows : \A o \in rows : Col(o, "week") <= Col(r, "week") }

\* the rows get_team_rating may return the value of
RatingRowChoices(team_id, season, week, league) ==
    IF ExactWeekRows(team_id, season, week, league) # {}
    THEN ExactWeekRows(team_id, season, week, league)
    ELSE LatestRows(EarlierWeekRows(team_id, season, week, league))

\* ratings.py 332-380: the values get_team_rating may return (None is Null)
get_team_rating(team_id, season, week, league, rating_type) ==
    IF RatingRowChoices(team_id, season, week, league) = {} THEN { Null }
    ELSE { Col(r, RatingCol(rating_type)) :
             r \in RatingRowChoices(team_id, season, week, league) }

\* the rolling-window filter without its week cutoff
StatsRowsAnyWeek(team_id, season, week, league) ==
    { s \in team_stats : /\ s.team_id = team_id
                         /\ s.season = season
                         /\ s.league = league }

\* feature_engineering.py 160-165: the rows of the rolling window, the
\* highest weeks first; rows of one week come in the order the store gives
StatsRows(team_id, season, week, league) ==
    { s \in team_stats : /\ s.team_id = team_id
                         /\ s.season = season
                         /\ s.week <= week
                         /\ s.league = league }

WeekGeq(s1, s2) == s1.week >= s2.week

rolling_window_default == 8

Min(a, b) == IF a < b THEN a ELSE b

WindowChoices(team_id, season, week, league, window) ==
    { SubSeq(q, 1, Min(window, Len(q))) :
        q \in Orders(StatsRows(team_id, season, week, league), WeekGeq) }

RECURSIVE SumSeq(_)
SumSeq(q) == IF Len(q) = 0 THEN 0 ELSE Head(q) + SumSeq(Tail(q))

SelectNonNull(q) == SelectSeq(q, LAMBDA x : x # Null)

\* feature_engineering.py 167-176: the mean, in 1/RatingScale points, or None
RollingPointDiff(stats) ==
    LET point_diffs == SelectNonNull([i \in DOMAIN stats |-> stats[i].point_differential])
    IN  IF Len(stats) = 0 THEN Null
        ELSE IF Len(point_diffs) = 0 THEN Null
        ELSE (SumSeq(point_diffs) * RatingScale) \div Len(point_diffs)

\* FeatureEngineer._get_rolling_point_diff (feature_engineering.py 140-176)
\* called on an engineer of the given league; window = Null stands for the
\* omitted argument.  The call keeps the rows the query returned.
GetRollingPointDiff(team_id, season, week, league, window) ==
    LET w == IF window = Null THEN rolling_window_default ELSE window
    IN  \E stats \in WindowChoices(team_id, season, week, league, w) :
          /\ wk' = [ pc      |-> "rolled",
                     team_id |-> team_id,
                     season  |-> season,
                     week    |-> week,
                     league  |-> league,
                     window  |-> w,
                     stats   |-> stats,
                     result  |-> RollingPointDiff(stats) ]
          /\ UNCHANGED <<games, teams, team_ratings, team_stats, cmd, byid, writes>>

\* Python "x or 0"
OrZero(x) == IF x = Null THEN 0 ELSE x

\* feature_engineering.py 84-85
DefaultPredictionWeek(game) == IF game.week > 1 THEN game.week - 1 ELSE 0

WkIdle ==
    [ pc              |-> "idle",
      game            |-> << >>,
      league          |-> "",
      rating_type     |-> "",
      prediction_week |-> Null,
      home_rating     |-> Null,
      away_rating     |-> Null,
      rating_rows     |-> {},
      stats_rows      |-> {},
      features        |-> << >>,
      row             |-> << >> ]

\* the four features of feature_engineering.py 131-136
WeekFeatureVector(game, league, home_rating, away_rating, home_point_diff, away_point_diff) ==
    [ rating_diff |-> OrZero(home_rating) - OrZero(away_rating),
      home_field_advantage |-> IF ~game.is_neutral_site THEN 1 ELSE 0,
      point_diff_diff |-> OrZero(home_point_diff) - OrZero(away_point_diff),
      league_indicator |-> IF league = "NFL" THEN 1 ELSE 0 ]

\* feature_engineering.py 83-138, after the cutoff week is fixed; a call
\* from create_training_features adds game_id to the returned dict and
\* appends it to features_list (205-207): that entry is row
WeekCall(game, league, rating_type, prediction_week, training) ==
    LET season == game.season
        col == RatingCol(rating_type)
    IN  \E hr \in SUBSET RatingRowChoices(game.home_team_id, season, prediction_week, league),
           ar \in SUBSET RatingRowChoices(game.away_team_id, season, prediction_week, league),
           hs \in WindowChoices(game.home_team_id, season, prediction_week, league,
                                rolling_window_default),
           as \in WindowChoices(game.away_team_id, season, prediction_week, league,
                                rolling_window_default) :
          /\ Cardinality(hr) = Min(1, Cardinality(RatingRowChoices(
                 game.home_team_id, season, prediction_week, league)))
          /\ Cardinality(ar) = Min(1, Cardinality(RatingRowChoices(
                 game.away_team_id, season, prediction_week, league)))
          /\ LET home_rating == IF hr = {} THEN Null
                                ELSE Col(CHOOSE r \in hr : TRUE, col)
                 away_rating == IF ar = {} THEN Null
                                ELSE Col(CHOOSE r \in ar : TRUE, col)
                 home_point_diff == RollingPointDiff(hs)
                 away_point_diff == RollingPointDiff(as)
             IN  wk' = [ pc              |-> "done",
                         game            |-> game,
                         league          |-> league,
                         rating_type     |-> rating_type,
                         prediction_week |-> prediction_week,
                         home_rating     |-> home_rating,
                         away_rating     |-> away_rating,
                         rating_rows     |-> hr \cup ar,
                         stats_rows      |-> Range(hs) \cup Range(as),
                         features        |->
                           WeekFeatureVector(game, league, home_rating, away_rating,
                                             home_point_diff, away_point_diff),
                         row             |->
                           IF training
                           THEN WeekFeatureVector(game, league, home_rating,
                                                  away_rating, home_point_diff,
                                                  away_point_diff)
                                @@ [ game_id |-> game.game_id ]
                           ELSE << >> ]
          /\ UNCHANGED <<games, teams, team_ratings, team_stats, cmd, byid, writes>>

\* FeatureEngineer.compute_game_features called directly
WeekFeatures(game, league, rating_type, prediction_week) ==
    WeekCall(game, league, rating_type, prediction_week, FALSE)

\* FeatureEngineer.compute_game_features (feature_engineering.py 63-138);
\* prediction_week = Null stands for the omitted argument
ComputeGameFeatures(game, league, rating_type, prediction_week) ==
    WeekFeatures(game, league, rating_type,
                 IF prediction_week = Null THEN DefaultPredictionWeek(game)
                 ELSE prediction_week)

\* FeatureEngineer.create_training_features (feature_engineering.py 201-207),
\* one game of the list
CreateTrainingFeatures(game, league, rating_type) ==
    WeekCall(game, league, rating_type,
             IF game.week > 1 THEN game.week - 1 ELSE 0, TRUE)

(***************************************************************************)
(* NFLIngestion.ingest_games (nfl_ingestion.py 276-362): one game row is   *)
(* upserted by game_id.                                                    *)
(***************************************************************************)
UpsertGame(table, row) ==
    IF \E e \in table : e.game_id = row.game_id
    THEN { IF e.game_id = row.game_id
           THEN [e EXCEPT !.season = row.season, !.week = row.week,
                          !.date = row.date, !.home_score = row.home_score,
                          !.away_score = row.away_score,
                          !.completed = row.completed,
                          !.is_neutral_site = row.is_neutral_site]
           ELSE e : e \in table }
    ELSE table \cup {row}

(***************************************************************************)
(* The stores the runs start from.                                         *)
(***************************************************************************)
ThisSeason == FirstSeason + 24
LastSeason == ThisSeason - 1

WeekDates == { <<1, 1>>, <<1, 2>>, <<2, 1>> }
Pairings == { <<A, B>>, <<B, C>>, <<NFL_A, B>>, <<EmptyId, B>> }
Scores == { <<1, 0>>, <<0, 1>>, <<1, 1>> }

SeasonGames ==
    { Game("NFL", ThisSeason, wd[1], wd[2], pr[1], pr[2], sc[1], sc[2], TRUE) :
        wd \in WeekDates, pr \in Pairings, sc \in Scores }

OtherGames ==
    { Game("NCAA", ThisSeason, 1, 1, A, B, 1, 0, TRUE),
      Game("NFL", LastSeason, 1, 1, A, B, 1, 0, TRUE),
      Game("NFL", FirstSeason, 1, 1, A, B, 0, 1, TRUE),
      Game("NFL", ThisSeason, 2, 2, C, A, Null, Null, FALSE),
      Game("NCAA", ThisSeason, 2, 2, C, B, 1, 0, FALSE) }

GameStores ==
    { S \in SubsetsUpTo(SeasonGames \cup OtherGames, MaxGames) : UniqueGameIds(S) }

TeamTables == SUBSET { Team(NFL_A, "NFL"), Team(B, "NFL") }

RatingTables ==
    SUBSET { TeamRating(NFL_B, LastSeason, 1, "NFL", 1800 * RatingScale, Null),
             TeamRating(NFL_A, ThisSeason, 1, "NFL", Null, 3) }

CmdArgs ==
    { CmdStart("NFL", season, k_factor_default, base_rating_default * RatingScale) :
        season \in {ThisSeason, FirstSeason} }

Init ==
    /\ games \in GameStores
    /\ team_ratings \in RatingTables
    /\ \E extra \in TeamTables :
          teams = TeamsReferenced(games, team_ratings, {}) \cup extra
    /\ cmd \in [Cmds -> CmdArgs]
    /\ team_stats = {}
    /\ byid = [f \in Calls |-> ByIdIdle]
    /\ wk = WkIdle
    /\ writes = 0

\* The command is run again after it has ended.
CmdTurn(p) == \A q \in 1 .. p - 1 : Ended(q)

Next ==
    \/ \E p \in Cmds : CmdTurn(p) /\ QueryGames(p)
    \/ \E p \in Cmds : CmdTurn(p) /\ InitRatings(p)
    \/ \E p \in Cmds : CmdTurn(p) /\ ProcessGame(p)
    \/ \E p \in Cmds : CmdTurn(p) /\ SkipGame(p)
    \/ \E p \in Cmds : CmdTurn(p) /\ EmitAndPersist(p)

Spec == Init /\ [][Next]_vars

(***************************************************************************)
(* Feature calls by game id over a store that ingestion changes.           *)
(***************************************************************************)
MissingId == GameId("NFL", ThisSeason, 9, A, B)

ByIdGames ==
    { Game("NFL", ThisSeason, 1, 1, A, B, 1, 0, TRUE),
      Game("NFL", ThisSeason, 1, 1, A, B, 1, 1, TRUE),
      Game("NFL", ThisSeason, 1, 1, B, C, 1, 0, TRUE),
      Game("NFL", ThisSeason, 2, 2, A, B, 1, 0, TRUE),
      Game("NFL", ThisSeason, 2, 2, B, C, 1, 1, TRUE),
      Game("NCAA", ThisSeason, 1, 1, A, B, 1, 0, TRUE),
      Game("NFL", LastSeason, 1, 1, A, B, 1, 0, TRUE),
      Game("NFL", ThisSeason, 1, 1, C, B, Null, Null, FALSE) }

ByIdStores ==
    { S \in SubsetsUpTo(ByIdGames, MaxGames) : UniqueGameIds(S) }

GameIdArgs == { g.game_id : g \in games } \cup { MissingId }

IngestGame(row) ==
    /\ writes < MaxWrites
    /\ \A f \in Calls : byid[f].pc # "loop"
    /\ games' = UpsertGame(games, row)
    /\ Cardinality(games') <= MaxGames + 1
    /\ teams' = teams \cup TeamsReferenced({row}, {}, {})
    /\ writes' = writes + 1
    /\ UNCHANGED <<team_ratings, team_stats, cmd, byid, wk>>

\* One call after the other.
CallTurn(f) == \A e \in 1 .. f - 1 : ByIdEnded(e)

InitById ==
    /\ games \in ByIdStores
    /\ teams = TeamsReferenced(games, {}, {})
    /\ team_ratings = {}
    /\ cmd = [p \in Cmds |->
                CmdStart("NFL", ThisSeason, k_factor_default,
                         base_rating_default * RatingScale)]
    /\ team_stats = {}
    /\ byid = [f \in Calls |-> ByIdIdle]
    /\ wk = WkIdle
    /\ writes = 0

NextById ==
    \/ \E f \in Calls, gid \in GameIdArgs : CallTurn(f) /\ ByIdNotFound(f, gid)
    \/ \E f \in Calls, gid \in GameIdArgs : CallTurn(f) /\ ByIdLoad(f, gid)
    \/ \E f \in Calls : CallTurn(f) /\ ByIdProcess(f)
    \/ \E f \in Calls : CallTurn(f) /\ ByIdReturn(f)
    \/ \E row \in ByIdGames : IngestGame(row)

SpecById == InitById /\ [][NextById]_vars

(***************************************************************************)
(* Week-cutoff feature calls over stored snapshots and weekly statistics.  *)
(***************************************************************************)
MaxWeek == 2
Weeks == 0 .. MaxWeek

NeutralSite(g) == [g EXCEPT !.is_neutral_site = TRUE]

WeekGames ==
    { Game("NFL", ThisSeason, w, w, A, B, 1, 0, TRUE) : w \in Weeks }
    \cup
    { NeutralSite(Game("NFL", ThisSeason, 1, 1, B, A, 0, 1, TRUE)),
      Game("NCAA", ThisSeason, 1, 1, A, B, 1, 0, TRUE) }

WeekStores == SubsetsUpTo(WeekGames, 1)

WeekRatingTables ==
    SUBSET ( { TeamRating(A, ThisSeason, w, "NFL", (1500 + 10 * w) * RatingScale, w) :
                 w \in Weeks }
             \cup
             { TeamRating(B, ThisSeason, 1, "NFL", 1490 * RatingScale, Null),
               \* a row as compute_srs_ratings writes it: elo_rating unset
               TeamRating(B, ThisSeason, 2, "NFL", Null, 4) } )

WeekStatsTables ==
    SUBSET ( { TeamStats(A, ThisSeason, w, "NFL", 3 + w) : w \in Weeks }
             \cup
             { TeamStats(B, ThisSeason, 1, "NFL", Null) } )

PredictionWeekArgs == Weeks \cup { Null }
RatingTypes == { "elo", "srs" }

InitWeek ==
    /\ games \in WeekStores
    /\ team_ratings \in WeekRatingTables
    /\ team_stats \in WeekStatsTables
    /\ teams = TeamsReferenced(games, team_ratings, team_stats)
    /\ cmd = [p \in Cmds |->
                CmdStart("NFL", ThisSeason, k_factor_default,
                         base_rating_default * RatingScale)]
    /\ byid = [f \in Calls |-> ByIdIdle]
    /\ wk = WkIdle
    /\ writes = 0

\* One call in a behaviour.
WkTurn == wk.pc = "idle"

NextWeek ==
    \/ \E game \in games, league \in Leagues, rating_type \in RatingTypes,
          prediction_week \in PredictionWeekArgs :
          WkTurn /\ ComputeGameFeatures(game, league, rating_type, prediction_week)
    \/ \E game \in games, league \in Leagues, rating_type \in RatingTypes :
          WkTurn /\ CreateTrainingFeatures(game, league, rating_type)

SpecWeek == InitWeek /\ [][NextWeek]_vars

(***************************************************************************)
(* Both replay paths over one store: the compute command, then feature     *)
(* calls by game id.                                                       *)
(***************************************************************************)
BothPathsGames ==
    { Game("NFL", ThisSeason, 1, 1, A, B, 1, 0, TRUE),
      Game("NFL", ThisSeason, 1, 1, B, C, 1, 1, TRUE),
      Game("NFL", ThisSeason, 1, 2, NFL_A, B, 0, 1, TRUE),
      Game("NFL", ThisSeason, 2, 1, EmptyId, B, 1, 0, TRUE),
      Game("NFL", ThisSeason, 2, 3, C, A, 1, 0, TRUE),
      Game("NCAA", ThisSeason, 1, 1, A, B, 1, 0, TRUE) }

BothPathsStores ==
    { S \in SubsetsUpTo(BothPathsGames, MaxGames + 1) : UniqueGameIds(S) }

InitReplays ==
    /\ games \in BothPathsStores
    /\ \E extra \in TeamTables :
          teams = TeamsReferenced(games, {}, {}) \cup extra
    /\ team_ratings = {}
    /\ team_stats = {}
    /\ \E k \in {k_factor_default, 2 * k_factor_default} :
          cmd = [p \in Cmds |->
                   CmdStart("NFL", ThisSeason, k, base_rating_default * RatingScale)]
    /\ byid = [f \in Calls |-> ByIdIdle]
    /\ wk = WkIdle
    /\ writes = 0

\* The feature calls follow the commands.
CallAfterCmds(f) == CallTurn(f) /\ \A p \in Cmds : Ended(p)

NextReplays ==
    \/ \E p \in Cmds : CmdTurn(p) /\ QueryGames(p)
    \/ \E p \in Cmds : CmdTurn(p) /\ InitRatings(p)
    \/ \E p \in Cmds : CmdTurn(p) /\ ProcessGame(p)
    \/ \E p \in Cmds : CmdTurn(p) /\ SkipGame(p)
    \/ \E p \in Cmds : CmdTurn(p) /\ EmitAndPersist(p)
    \/ \E f \in Calls, gid \in GameIdArgs : CallAfterCmds(f) /\ ByIdNotFound(f, gid)
    \/ \E f \in Calls, gid \in GameIdArgs : CallAfterCmds(f) /\ ByIdLoad(f, gid)
    \/ \E f \in Calls : CallAfterCmds(f) /\ ByIdProcess(f)
    \/ \E f \in Calls : CallAfterCmds(f) /\ ByIdReturn(f)

SpecReplays == InitReplays /\ [][NextReplays]_vars

(***************************************************************************)
(* Two runs of the compute command at once, for consecutive seasons.       *)
(***************************************************************************)
ConcGames ==
    { Game("NFL", season, 1, 1, pr[1], pr[2], sc[1], sc[2], TRUE) :
        season \in {LastSeason, ThisSeason},
        pr \in { <<A, B>>, <<B, C>>, <<EmptyId, B>> },
        sc \in { <<1, 0>>, <<1, 1>> } }

ConcStores ==
    { S \in SubsetsUpTo(ConcGames, MaxGames + 1) : UniqueGameIds(S) }

InitConc ==
    /\ games \in ConcStores
    /\ team_ratings \in RatingTables
    /\ \E extra \in TeamTables :
          teams = TeamsReferenced(games, team_ratings, {}) \cup extra
    /\ team_stats = {}
    /\ cmd = [p \in Cmds |->
                CmdStart("NFL", IF p = 1 THEN LastSeason ELSE ThisSeason,
                         k_factor_default, base_rating_default * RatingScale)]
    /\ byid = [f \in Calls |-> ByIdIdle]
    /\ wk = WkIdle
    /\ writes = 0

NextConc ==
    \/ \E p \in Cmds : QueryGames(p)
    \/ \E p \in Cmds : InitRatings(p)
    \/ \E p \in Cmds : ProcessGame(p)
    \/ \E p \in Cmds : SkipGame(p)
    \/ \E p \in Cmds : EmitAndPersist(p)

SpecConc == InitConc /\ [][NextConc]_vars

(***************************************************************************)
(* Both cutoff modes over one store: a week-cutoff call, then feature      *)
(* calls by game id.                                                       *)
(***************************************************************************)
ModesGames ==
    { Game("NFL", ThisSeason, 1, 1, A, B, 1, 0, TRUE),
      Game("NFL", ThisSeason, 1, 1, C, D, 0, 1, TRUE),
      Game("NFL", ThisSeason, 1, 1, B, C, 1, 1, TRUE),
      Game("NFL", ThisSeason, 2, 2, A, B, 1, 0, TRUE),
      Game("NCAA", ThisSeason, 1, 1, A, B, 1, 0, TRUE),
      Game("NFL", LastSeason, 1, 1, A, B, 1, 0, TRUE) }

ModesStores ==
    { S \in SubsetsUpTo(ModesGames, MaxGames) : UniqueGameIds(S) }

ModesRatingTables ==
    SUBSET { TeamRating(A, ThisSeason, 0, "NFL", 1510 * RatingScale, 2),
             TeamRating(A, ThisSeason, 2, "NFL", 1530 * RatingScale, Null),
             TeamRating(B, ThisSeason, 1, "NFL", 1490 * RatingScale, 1) }

InitModes ==
    /\ games \in ModesStores
    /\ team_ratings \in ModesRatingTables
    /\ team_stats = {}
    /\ teams = TeamsReferenced(games, team_ratings, team_stats)
    /\ cmd = [p \in Cmds |->
                CmdStart("NFL", ThisSeason, k_factor_default,
                         base_rating_default * RatingScale)]
    /\ byid = [f \in Calls |-> ByIdIdle]
    /\ wk = WkIdle
    /\ writes = 0

\* The calls by game id follow the week-cutoff call.
CallAfterWeek(f) == CallTurn(f) /\ wk.pc = "done"

NextModes ==
    \/ \E game \in games, league \in Leagues, rating_type \in RatingTypes :
          WkTurn /\ ComputeGameFeatures(game, league, rating_type, Null)
    \/ \E game \in games, rating_type \in RatingTypes :
          WkTurn /\ CreateTrainingFeatures(game, "NFL", rating_type)
    \/ \E f \in Calls, gid \in GameIdArgs : CallAfterWeek(f) /\ ByIdNotFound(f, gid)
    \/ \E f \in Calls, gid \in GameIdArgs : CallAfterWeek(f) /\ ByIdLoad(f, gid)
    \/ \E f \in Calls : CallAfterWeek(f) /\ ByIdProcess(f)
    \/ \E f \in Calls : CallAfterWeek(f) /\ ByIdReturn(f)

SpecModes == InitModes /\ [][NextModes]_vars

(***************************************************************************)
(* SpecRolling: _get_rolling_point_diff on stores of team statistics.      *)
(* team_stats has no unique key on (team, season, week), so two rows of    *)
(* one week can exist.                                                     *)
(***************************************************************************)
MaxStats == 4

RollingStats ==
    { TeamStats(A, ThisSeason, 1, "NFL", 3),
      TeamStats(A, ThisSeason, 2, "NFL", 0 - 4),
      TeamStats(A, ThisSeason, 2, "NFL", Null),
      TeamStats(A, ThisSeason, 3, "NFL", 6),
      TeamStats(A, ThisSeason, 0, "NFL", 0 - 3),
      TeamStats(B, ThisSeason, 1, "NFL", 5),
      TeamStats(A, ThisSeason, 1, "NCAA", 9),
      TeamStats(A, LastSeason, 1, "NFL", 7) }

RollingStatsTables == SubsetsUpTo(RollingStats, MaxStats)

WindowArgs == { Null, 1, 2 }

InitRolling ==
    /\ games = {}
    /\ team_ratings = {}
    /\ team_stats \in RollingStatsTables
    /\ teams = TeamsReferenced(games, team_ratings, team_stats)
    /\ cmd = [p \in Cmds |->
                CmdStart("NFL", ThisSeason, k_factor_default,
                         base_rating_default * RatingScale)]
    /\ byid = [f \in Calls |-> ByIdIdle]
    /\ wk = WkIdle
    /\ writes = 0

NextRolling ==
    \E team_id \in { A, B }, week \in 0 .. 3, league \in Leagues,
       window \in WindowArgs :
       WkTurn /\ GetRollingPointDiff(team_id, ThisSeason, week, league, window)

SpecRolling == InitRolling /\ [][NextRolling]_vars

(***************************************************************************)
(* SpecSkip: the command runs on a log, a game whose identifier does not   *)
(* normalise ('' or the bare prefix 'NFL_') is ingested, and the command   *)
(* runs again.  The teams of every game are in the teams table throughout. *)
(***************************************************************************)
NFL_ == <<"NFL_">>

SkipLog ==
    { Game("NFL", ThisSeason, 1, 1, A, B, 1, 0, TRUE),
      Game("NFL", ThisSeason, 1, 2, B, C, 0, 1, TRUE),
      Game("NFL", ThisSeason, 2, 3, NFL_A, C, 1, 1, TRUE) }

UnnormalisableGames ==
    { Game("NFL", ThisSeason, 1, 1, EmptyId, B, 1, 0, TRUE),
      Game("NFL", ThisSeason, 2, 2, A, NFL_, 0, 1, TRUE) }

SkipStores == SubsetsUpTo(SkipLog \cup UnnormalisableGames, MaxGames)

InitSkip ==
    /\ games \in SkipStores
    /\ teams = TeamsReferenced(SkipLog \cup UnnormalisableGames, {}, {})
    /\ team_ratings = {}
    /\ team_stats = {}
    /\ cmd = [p \in Cmds |->
                CmdStart("NFL", ThisSeason, k_factor_default,
                         base_rating_default * RatingScale)]
    /\ byid = [f \in Calls |-> ByIdIdle]
    /\ wk = WkIdle
    /\ writes = 0

NextSkip ==
    \/ \E p \in Cmds : CmdTurn(p) /\ QueryGames(p)
    \/ \E p \in Cmds : CmdTurn(p) /\ InitRatings(p)
    \/ \E p \in Cmds : CmdTurn(p) /\ ProcessGame(p)
    \/ \E p \in Cmds : CmdTurn(p) /\ SkipGame(p)
    \/ \E p \in Cmds : CmdTurn(p) /\ EmitAndPersist(p)
    \/ \E row \in UnnormalisableGames : IngestGame(row)

SpecSkip == InitSkip /\ [][NextSkip]_vars

(***************************************************************************)
(* SpecNormalize: normalize_team_id (ratings.py 36-59) applied to an       *)
(* identifier and then to its own output.  An identifier is a sequence of  *)
(* pieces; 'NFL_NFL_A' is <<"NFL_", "NFL_", "A">>.                         *)
(***************************************************************************)
MaxPieces == 3

Pieces == { "NFL_", "NCAA_", "A", "B" }

Identifiers == UNION { [1 .. n -> Pieces] : n \in 0 .. MaxPieces }

\* a call normalize_team_id(team_id, league)
Normalize(team_id, league) ==
    /\ wk.pc = "idle"
    /\ wk' = [ pc      |-> "normalized",
               team_id |-> team_id,
               league  |-> league,
               result  |-> normalize_team_id(team_id, league) ]
    /\ UNCHANGED <<games, teams, team_ratings, team_stats, cmd, byid, writes>>

\* a second call on the output of the first, with the same league
NormalizeAgain ==
    /\ wk.pc = "normalized"
    /\ wk' = [ pc      |-> "renormalized",
               team_id |-> wk.team_id,
               league  |-> wk.league,
               result  |-> wk.result,
               again   |-> normalize_team_id(wk.result, wk.league) ]
    /\ UNCHANGED <<games, teams, team_ratings, team_stats, cmd, byid, writes>>

InitNormalize ==
    /\ games = {}
    /\ teams = {}
    /\ team_ratings = {}
    /\ team_stats = {}
    /\ cmd = [p \in Cmds |->
                CmdStart("NFL", ThisSeason, k_factor_default,
                         base_rating_default * RatingScale)]
    /\ byid = [f \in Calls |-> ByIdIdle]
    /\ wk = WkIdle
    /\ writes = 0

NextNormalize ==
    \/ \E team_id \in Identifiers, league \in Leagues : Normalize(team_id, league)
    \/ NormalizeAgain

SpecNormalize == InitNormalize /\ [][NextNormalize]_vars

(***************************************************************************)
(* SpecConfig: the compute command with the k_factor values its option     *)
(* takes (compute_ratings.py 52-57: a float, no range) and the replay      *)
(* accepts (ratings.py 62-70: no check).                                   *)
(***************************************************************************)
KFactorArgs == { 0 - k_factor_default, 0, k_factor_default }

InitConfig ==
    /\ games \in { S \in SubsetsUpTo(BothPathsGames, MaxGames) : UniqueGameIds(S) }
    /\ \E extra \in TeamTables :
          teams = TeamsReferenced(games, {}, {}) \cup extra
    /\ team_ratings = {}
    /\ team_stats = {}
    /\ \E k \in KFactorArgs :
          cmd = [p \in Cmds |->
                   CmdStart("NFL", ThisSeason, k, base_rating_default * RatingScale)]
    /\ byid = [f \in Calls |-> ByIdIdle]
    /\ wk = WkIdle
    /\ writes = 0

NextConfig ==
    \/ \E p \in Cmds : CmdTurn(p) /\ QueryGames(p)
    \/ \E p \in Cmds : CmdTurn(p) /\ InitRatings(p)
    \/ \E p \in Cmds : CmdTurn(p) /\ ProcessGame(p)
    \/ \E p \in Cmds : CmdTurn(p) /\ SkipGame(p)
    \/ \E p \in Cmds : CmdTurn(p) /\ EmitAndPersist(p)

SpecConfig == InitConfig /\ [][NextConfig]_vars

(***************************************************************************)
(* SpecFeaturesCmd: one run of the compute_features command.               *)
(***************************************************************************)
InitFeaturesCmd ==
    /\ games \in ByIdStores
    /\ teams = TeamsReferenced(games, {}, {})
    /\ team_ratings = {}
    /\ team_stats = {}
    /\ cmd = [p \in Cmds |->
                CmdStart("NFL", ThisSeason, k_factor_default,
                         base_rating_default * RatingScale)]
    /\ byid = [f \in Calls |-> ByIdIdle]
    /\ wk = WkIdle
    /\ writes = 0

NextFeaturesCmd ==
    \E gid \in GameIdArgs, as_of \in AsOfArgs : ComputeFeaturesCommand(gid, as_of)

SpecFeaturesCmd == InitFeaturesCmd /\ [][NextFeaturesCmd]_vars

(***************************************************************************)
(* SpecUnseen: the compute command over a team table whose rows carry any  *)
(* league (teams.league is a free column, database.py 172; only NFL        *)
(* ingestion creates team rows, nfl_ingestion.py 257-274), so that a team  *)
(* of an NFL game can be missing from the NFL team list of the replay.     *)
(***************************************************************************)
TeamIdsOf(game_rows) ==
    { g.home_team_id : g \in game_rows } \cup { g.away_team_id : g \in game_rows }

InitUnseen ==
    /\ games \in { S \in SubsetsUpTo(BothPathsGames, MaxGames) : UniqueGameIds(S) }
    /\ \E lg \in [TeamIdsOf(games) -> Leagues] :
          teams = { Team(id, lg[id]) : id \in TeamIdsOf(games) }
    /\ team_ratings = {}
    /\ team_stats = {}
    /\ cmd = [p \in Cmds |->
                CmdStart("NFL", ThisSeason, k_factor_default,
                         base_rating_default * RatingScale)]
    /\ byid = [f \in Calls |-> ByIdIdle]
    /\ wk = WkIdle
    /\ writes = 0

NextUnseen ==
    \/ \E p \in Cmds : CmdTurn(p) /\ QueryGames(p)
    \/ \E p \in Cmds : CmdTurn(p) /\ InitRatings(p)
    \/ \E p \in Cmds : CmdTurn(p) /\ ProcessGame(p)
    \/ \E p \in Cmds : CmdTurn(p) /\ SkipGame(p)
    \/ \E p \in Cmds : CmdTurn(p) /\ EmitAndPersist(p)

SpecUnseen == InitUnseen /\ [][NextUnseen]_vars

(***************************************************************************)
(* SpecAgree: the compute command, then compute_game_features_by_id for a  *)
(* game that is not yet played and is dated after every other game, so     *)
(* that both paths replay the same games.                                  *)
(***************************************************************************)
AgreeLog ==
    { Game("NFL", ThisSeason, 1, 1, A, B, 1, 0, TRUE),
      Game("NFL", ThisSeason, 1, 1, B, C, 1, 1, TRUE),
      Game("NFL", ThisSeason, 2, 2, B, C, 0, 1, TRUE),
      Game("NFL", ThisSeason, 2, 1, C, A, 1, 0, TRUE),
      Game("NFL", ThisSeason, 1, 2, A, C, 0, 1, TRUE) }

AgreeTarget == Game("NFL", ThisSeason, 3, 3, A, C, Null, Null, FALSE)

InitAgree ==
    /\ \E S \in SubsetsUpTo(AgreeLog, MaxGames) : games = S \cup { AgreeTarget }
    /\ teams = TeamsReferenced(games, {}, {})
    /\ team_ratings = {}
    /\ team_stats = {}
    /\ cmd = [p \in Cmds |->
                CmdStart("NFL", ThisSeason, k_factor_default,
                         base_rating_default * RatingScale)]
    /\ byid = [f \in Calls |-> ByIdIdle]
    /\ wk = WkIdle
    /\ writes = 0

NextAgree ==
    \/ \E p \in Cmds : CmdTurn(p) /\ QueryGames(p)
    \/ \E p \in Cmds : CmdTurn(p) /\ InitRatings(p)
    \/ \E p \in Cmds : CmdTurn(p) /\ ProcessGame(p)
    \/ \E p \in Cmds : CmdTurn(p) /\ EmitAndPersist(p)
    \/ \E f \in Calls : CallAfterCmds(f) /\ ByIdLoad(f, AgreeTarget.game_id)
    \/ \E f \in Calls : CallAfterCmds(f) /\ ByIdProcess(f)
    \/ \E f \in Calls : CallAfterCmds(f) /\ ByIdReturn(f)

SpecAgree == InitAgree /\ [][NextAgree]_vars

(***************************************************************************)
(* Properties.                                                             *)
(***************************************************************************)
\* C1: date-cutoff mode is leakage-safe: two calls of
\* compute_game_features_by_id for the same target game, on stores that hold
\* the same completed, scored games of the target's league and season dated
\* before the target, return the same feature vector, whatever else the
\* stores hold.
C1_SamePriorGamesSameFeatures ==
    \A f1 \in Calls, f2 \in Calls :
        ( /\ byid[f1].pc = "done"
          /\ byid[f2].pc = "done"
          /\ byid[f1].game = byid[f2].game
          /\ Range(byid[f1].games) = Range(byid[f2].games) )
        => byid[f1].features = byid[f2].features

\* C2: week-cutoff mode is leakage-safe: with the default prediction week,
\* every rating snapshot row and every weekly statistic row that
\* compute_game_features reads for a game has a week strictly smaller than the
\* game's own week, for games of week 0, 1 and above.
C2_DefaultWeekReadsOnlyEarlierWeeks ==
    ( /\ wk.pc = "done"
      /\ wk.prediction_week = DefaultPredictionWeek(wk.game) )
    => /\ \A r \in wk.rating_rows : Col(r, "week") < wk.game.week
       /\ \A s \in wk.stats_rows : s.week < wk.game.week

GameOf(gid) == CHOOSE g \in games : g.game_id = gid

\* the replay has left its loop (ratings.py 159-205)
LoopDone(p) ==
    /\ Ended(p)
    /\ Len(cmd[p].games) > 0
    /\ cmd[p].i > Len(cmd[p].games)

IndexesOf(q, x) == { i \in DOMAIN q : q[i] = x }

\* C3: compute_elo_ratings applies the update of every completed, scored
\* game of the league and season (whose team identifiers normalise) exactly
\* once, and in non-decreasing (date, week) order: no game is processed after
\* a game with a later date.
C3_EveryGameOnceInDateOrder ==
    \A p \in Cmds :
        /\ \A i \in DOMAIN cmd[p].processed, j \in DOMAIN cmd[p].processed :
              i < j => DateWeekLeq(GameOf(cmd[p].processed[i]),
                                   GameOf(cmd[p].processed[j]))
        /\ LoopDone(p) =>
              \A g \in ReplayGames(cmd[p].league, cmd[p].season) :
                 ( /\ Truthy(normalize_team_id(g.home_team_id, cmd[p].league))
                   /\ Truthy(normalize_team_id(g.away_team_id, cmd[p].league)) )
                 => Cardinality(IndexesOf(cmd[p].processed, g.game_id)) = 1

\* C4: the replay is deterministic: two runs of compute_elo_ratings with the
\* same arguments over the same stored games, teams and prior-season
\* snapshots leave every team with the same rating and the same games count.
C4_SameLogSameRatings ==
    \A p \in Cmds, q \in Cmds :
        ( /\ Ended(p) /\ Ended(q)
          /\ cmd[p].league = cmd[q].league
          /\ cmd[p].season = cmd[q].season
          /\ cmd[p].k_factor = cmd[q].k_factor
          /\ cmd[p].base_rating = cmd[q].base_rating )
        => /\ cmd[p].ratings = cmd[q].ratings
           /\ cmd[p].team_games_count = cmd[q].team_games_count

RECURSIVE SumOver(_, _)
SumOver(f, S) ==
    IF S = {} THEN 0
    ELSE LET t == CHOOSE u \in S : TRUE
         IN  f[t] + SumOver(f, S \ {t})

Abs(x) == IF x < 0 THEN 0 - x ELSE x

\* one update of a rating table: the two changes cancel, the ratings of the
\* table (a team that enters counted at base) add up to what they did, and
\* no rating moves by more than k points
ZeroSumUpdate(before, after, home_change, away_change, base, k) ==
    LET old == [t \in DOMAIN after |-> RatingOr(before, t, base)]
    IN  /\ home_change = 0 - away_change
        /\ SumOver(after, DOMAIN after) = SumOver(old, DOMAIN after)
        /\ \A t \in DOMAIN after : Abs(after[t] - old[t]) <= k * RatingScale

CmdStepZeroSum ==
    \A p \in Cmds :
        Len(cmd'[p].processed) = Len(cmd[p].processed) + 1
        => ZeroSumUpdate(cmd[p].ratings, cmd'[p].ratings, cmd'[p].home_change,
                         cmd'[p].away_change, cmd[p].base_rating, cmd[p].k_factor)

ByIdStepZeroSum ==
    \A f \in Calls :
        byid'[f].i = byid[f].i + 1
        => ZeroSumUpdate(byid[f].ratings, byid'[f].ratings, byid'[f].home_change,
                         byid'[f].away_change, base_rating_by_id * RatingScale,
                         k_factor_by_id)

PriorSnapshots(t, league, season) ==
    { r \in team_ratings : /\ r.league = league
                           /\ r.season = season - 1
                           /\ normalize_team_id(r.team_id, league) = t }

\* C5: season-start initialisation: before the first game of a replay every
\* team known in the league has the rating prior*(1-f) + base*f of a
\* prior-season snapshot of it, if one exists, and base_rating otherwise.
C5_SeasonStartRatings ==
    \A p \in Cmds :
        ( /\ cmd[p].pc \notin {"query", "init"}
          /\ Len(cmd[p].games) > 0
          /\ cmd[p].i = 1 )
        => \A t \in TeamInfoKeys(cmd[p].league) :
              /\ t \in DOMAIN cmd[p].ratings
              /\ LET prior == PriorSnapshots(t, cmd[p].league, cmd[p].season)
                 IN  IF prior = {}
                     THEN cmd[p].ratings[t] = cmd[p].base_rating
                     ELSE \E r \in prior :
                            cmd[p].ratings[t] =
                                MeanRevert(r.elo_rating, cmd[p].base_rating)

\* the rows of the store that belong to a rating-table key of a run
RowsOfKey(p, t) ==
    { r \in team_ratings : /\ r.league = cmd[p].league
                           /\ r.season = cmd[p].season
                           /\ normalize_team_id(r.team_id, cmd[p].league) = t }

\* a row carries what the run computed for the key
CarriesReplay(p, t, r) ==
    /\ Col(r, "rating") = cmd[p].ratings[t]
    /\ Col(r, "games_count") = cmd[p].team_games_count[t]

\* the run has replayed at least one game and has ended
Replayed(p) == LoopDone(p) /\ DOMAIN cmd[p].ratings # {}

\* C7: idempotent persistence: after the compute command has run twice for
\* the same league and season over an unchanged game log, the rating store
\* holds exactly one row per (league, season, team), each row carries the
\* rating and games count of the latest replay, and the second run inserted
\* no row.
C7_TwoRunsOneRowPerTeam ==
    ( /\ Replayed(1) /\ Replayed(2)
      /\ cmd[1].league = cmd[2].league
      /\ cmd[1].season = cmd[2].season )
    => /\ \A t \in DOMAIN cmd[2].ratings :
             /\ Cardinality(RowsOfKey(2, t)) = 1
             /\ \A r \in RowsOfKey(2, t) : CarriesReplay(2, t, r)
       /\ cmd[2].inserted = 0

\* the run is at its persisting step: the loop is over, ratings exist
AtPersist(p) ==
    /\ cmd[p].pc = "loop"
    /\ cmd[p].i > Len(cmd[p].games)
    /\ DOMAIN cmd[p].ratings # {}

VisibleStep ==
    \A p \in Cmds :
        (AtPersist(p) /\ cmd'[p].pc # "loop")
        => \A t \in DOMAIN cmd[p].ratings :
              \E r \in team_ratings' :
                 /\ r.league = cmd[p].league
                 /\ r.season = cmd[p].season
                 /\ normalize_team_id(r.team_id, cmd[p].league) = t
                 /\ Col(r, "rating") = cmd[p].ratings[t]

AllOrNothingStep ==
    team_ratings' # team_ratings
    => \E p \in Cmds :
          /\ AtPersist(p)
          /\ \A t \in DOMAIN cmd[p].ratings :
                \E r \in team_ratings' :
                   /\ r.league = cmd[p].league
                   /\ r.season = cmd[p].season
                   /\ normalize_team_id(r.team_id, cmd[p].league) = t
                   /\ Col(r, "rating") = cmd[p].ratings[t]

C9_NoSharedMutableState ==
    [][\A q \in Cmds :
          ~Ended(q) =>
             PrevRows(cmd[q].league, cmd[q].season)'
               = PrevRows(cmd[q].league, cmd[q].season)]_vars

\* the last week in which a processed game of the run involved the key
LastWeekOf(p, t) ==
    LET ws == { GameOf(cmd[p].processed[i]).week :
                  i \in { j \in DOMAIN cmd[p].processed :
                     LET g == GameOf(cmd[p].processed[j])
                     IN  t \in { normalize_team_id(g.home_team_id, cmd[p].league),
                                 normalize_team_id(g.away_team_id, cmd[p].league) } } }
    IN  IF ws = {} THEN 0 ELSE CHOOSE w \in ws : \A v \in ws : v <= w

\* the identifiers a caller may know the team of a rating-table key by
IdsOfKey(t, league) ==
    { t, <<Prefix(league)>> \o t }
    \cup { g.home_team_id : g \in { x \in games :
               normalize_team_id(x.home_team_id, league) = t } }
    \cup { g.away_team_id : g \in { x \in games :
               normalize_team_id(x.away_team_id, league) = t } }

\* C10: replay output reaches the feature composer: after the compute
\* command has run for a season, get_team_rating for a team of that season,
\* at any week at or after the team's last processed game, returns the Elo
\* rating the replay computed for that team.
C10_ReplayReachesGetTeamRating ==
    \A p \in Cmds :
        Replayed(p) =>
           \A t \in DOMAIN cmd[p].ratings :
              cmd[p].team_games_count[t] > 0 =>
                 \A w \in LastWeekOf(p, t) .. MaxWeek :
                    \E tid \in IdsOfKey(t, cmd[p].league) :
                       get_team_rating(tid, cmd[p].season, w, cmd[p].league, "elo")
                          = { cmd[p].ratings[t] }

\* C11: in week-cutoff mode rating_diff is the home rating minus the away
\* rating when both ratings are known, and 0 whenever the rating of at least
\* one of the two teams is unknown.
C11_RatingDiffZeroIfEitherUnknown ==
    wk.pc = "done"
    => IF wk.home_rating # Null /\ wk.away_rating # Null
       THEN wk.features.rating_diff = wk.home_rating - wk.away_rating
       ELSE wk.features.rating_diff = 0

\* the teams of the games of a sequence
TeamsIn(q) ==
    { q[i].home_team_id : i \in DOMAIN q } \cup { q[i].away_team_id : i \in DOMAIN q }

\* no snapshot of the team in the season at or before the week
NoSnapshotUpTo(team_id, season, week) ==
    ~\E r \in team_ratings : /\ r.team_id = team_id
                              /\ r.season = season
                              /\ Col(r, "week") <= week

ByIdColdStart(f) ==
    /\ byid[f].pc = "done"
    /\ byid[f].game.home_team_id \notin TeamsIn(byid[f].games)
    /\ byid[f].game.away_team_id \notin TeamsIn(byid[f].games)

WeekColdStart ==
    /\ wk.pc = "done"
    /\ NoSnapshotUpTo(wk.game.home_team_id, wk.game.season, wk.prediction_week)
    /\ NoSnapshotUpTo(wk.game.away_team_id, wk.game.season, wk.prediction_week)

\* C12: cold start: in both cutoff modes, for a game at the very start of
\* the available history (no earlier game of either team in the season, no
\* snapshot of either team at or before the cutoff) rating_diff is exactly 0.
C12_ColdStartRatingDiffZero ==
    /\ \A f \in Calls : ByIdColdStart(f) => byid[f].features.rating_diff = 0
    /\ WeekColdStart => wk.features.rating_diff = 0

\* both modes met a cold start: the call by id had prior games of other
\* teams, the week-cutoff call a store holding snapshots
C12_Witness ==
    /\ \E f \in Calls : ByIdColdStart(f) /\ Len(byid[f].games) >= 1
    /\ WeekColdStart
    /\ team_ratings # {}

ByIdCallStep ==
    \A f \in Calls :
        /\ (byid[f].pc = "idle" /\ byid'[f].pc # "idle")
           => /\ byid'[f].pc = "failed"
                 <=> ~\E g \in games : g.game_id = byid'[f].game_id
              /\ byid'[f].pc = "failed"
                 => /\ byid'[f].error = "ValueError"
                    /\ byid'[f].i = 1
                    /\ byid'[f].ratings = EmptyMap
        /\ byid[f].pc = "loop"
           => /\ byid'[f].pc \in {"loop", "done"}
              /\ byid'[f].error = ""
              /\ (Len(byid[f].games) = 0 /\ byid'[f].pc = "done")
                 => byid'[f].features.rating_diff = 0

\* C13: compute_game_features_by_id fails with the not-found error, before
\* it replays any game, exactly when no game has the requested identifier;
\* for an existing game it raises no error, and with no qualifying prior game
\* it returns a feature vector whose rating_diff is 0.
C13_NotFoundOnlyForUnknownId == [][ByIdCallStep]_vars

\* one call failed on an unknown identifier, another returned for a game
\* without prior games
C13_Witness ==
    \E f1 \in Calls, f2 \in Calls :
        /\ byid[f1].pc = "failed" /\ byid[f1].error = "ValueError"
        /\ byid[f2].pc = "done" /\ Len(byid[f2].games) = 0
        /\ byid[f2].features.rating_diff = 0
        /\ games # {}

(***************************************************************************)
(* C14: _get_rolling_point_diff returns the mean point differential over   *)
(* at most the last W rows of the team, season and league: no row of a     *)
(* week after the cutoff is read, the rows of the highest weeks come       *)
(* first, and the result is None, never 0, when no row qualifies or no     *)
(* qualifying row has a point differential.                                *)
(***************************************************************************)
Qualifying ==
    { s \in team_stats : /\ s.team_id = wk.team_id
                         /\ s.season = wk.season
                         /\ s.league = wk.league
                         /\ s.week <= wk.week }

WithDiff(S) == { s \in S : s.point_differential # Null }

C14_RollingMeanOfLastRows ==
    wk.pc = "rolled"
    => LET used == Range(wk.stats)
           n == Cardinality(WithDiff(used))
       IN  /\ used \subseteq Qualifying
           /\ Cardinality(used) = Len(wk.stats)
           /\ Len(wk.stats) = Min(wk.window, Cardinality(Qualifying))
           /\ \A i, j \in DOMAIN wk.stats :
                  i < j => wk.stats[i].week >= wk.stats[j].week
           /\ \A s \in Qualifying \ used : \A u \in used : u.week >= s.week
           /\ WithDiff(Qualifying) = {} => wk.result = Null
           /\ n = 0 => wk.result = Null
           /\ n > 0 => wk.result =
                  (SumOver([s \in WithDiff(used) |-> s.point_differential],
                           WithDiff(used)) * RatingScale) \div n

C14_Witness ==
    /\ wk.pc = "rolled"
    /\ wk.window < Cardinality(Qualifying)
    /\ wk.result # Null
    /\ \E s \in team_stats : /\ s.team_id = wk.team_id
                              /\ s.season = wk.season
                              /\ s.league = wk.league
                              /\ s.week > wk.week

(***************************************************************************)
(* C15: get_team_rating returns, for a team, season, league and week w,    *)
(* the rating of the team's snapshot with the greatest week <= w, and      *)
(* unknown only when the team has no snapshot at or before w; it never     *)
(* returns the value of a later week, another season or another team.      *)
(* wk.home_rating and wk.away_rating are the two values get_team_rating    *)
(* returned to the feature composer.                                       *)
(***************************************************************************)
SnapshotsUpTo(team_id) ==
    { r \in team_ratings : /\ r.team_id = team_id
                           /\ r.season = wk.game.season
                           /\ r.league = wk.league
                           /\ Col(r, "week") <= wk.prediction_week }

LatestSnapshotRating(team_id, value) ==
    IF SnapshotsUpTo(team_id) = {} THEN value = Null
    ELSE /\ value # Null
         /\ \E r \in SnapshotsUpTo(team_id) :
               /\ \A o \in SnapshotsUpTo(team_id) : Col(o, "week") <= Col(r, "week")
               /\ value = Col(r, RatingCol(wk.rating_type))

C15_LatestSnapshotAtOrBefore ==
    wk.pc = "done"
    => /\ LatestSnapshotRating(wk.game.home_team_id, wk.home_rating)
       /\ LatestSnapshotRating(wk.game.away_team_id, wk.away_rating)

(***************************************************************************)
(* C16: the whole-season SRS rating is never used by the feature composer: *)
(* however FeatureEngineer is constructed, the rating_diff it produces is  *)
(* computed from the elo_rating of the snapshots it read and never from    *)
(* their srs_rating.                                                       *)
(***************************************************************************)
EloRead(team_id) ==
    IF \E r \in wk.rating_rows : r.team_id = team_id
    THEN OrZero(Col(CHOOSE r \in wk.rating_rows : r.team_id = team_id, "elo_rating"))
    ELSE 0

C16_RatingDiffFromEloOnly ==
    wk.pc = "done"
    => wk.features.rating_diff =
          EloRead(wk.game.home_team_id) - EloRead(wk.game.away_team_id)

(***************************************************************************)
(* C17: the output of a replay holds exactly one snapshot for every team   *)
(* that took part in at least one processed game, not only the teams of    *)
(* the last game, and the games count of the snapshot is the number of     *)
(* processed games in which the team was the home or the away side.        *)
(***************************************************************************)
TookPart(p, t, i) ==
    LET g == GameOf(cmd[p].processed[i])
    IN  \/ normalize_team_id(g.home_team_id, cmd[p].league) = t
        \/ normalize_team_id(g.away_team_id, cmd[p].league) = t

GamesOf(p, t) == { i \in DOMAIN cmd[p].processed : TookPart(p, t, i) }

Participants(p) ==
    UNION { { normalize_team_id(GameOf(gid).home_team_id, cmd[p].league),
              normalize_team_id(GameOf(gid).away_team_id, cmd[p].league) } :
            gid \in Range(cmd[p].processed) }

SnapshotsOf(p, t) ==
    { r \in cmd[p].result : normalize_team_id(r.team_id, cmd[p].league) = t }

C17_OneSnapshotPerParticipant ==
    \A p \in Cmds :
        Ended(p)
        => \A t \in Participants(p) :
              /\ Cardinality(SnapshotsOf(p, t)) = 1
              /\ \A r \in SnapshotsOf(p, t) :
                    r.games_count = Cardinality(GamesOf(p, t))

(***************************************************************************)
(* C18: when the league and season have no completed, scored game,         *)
(* compute_elo_ratings returns an empty result without raising, also when  *)
(* teams and prior-season snapshots exist, and the compute command then    *)
(* leaves the rating store unchanged.                                      *)
(***************************************************************************)
NoGamesStep ==
    \A p \in Cmds :
        ( /\ cmd[p].pc = "query"
          /\ cmd'[p] # cmd[p]
          /\ ReplayGames(cmd[p].league, cmd[p].season) = {} )
        => /\ cmd'[p].pc = "done"
           /\ cmd'[p].error = ""
           /\ cmd'[p].exit = 0
           /\ cmd'[p].result = {}
           /\ cmd'[p].inserted = 0
           /\ team_ratings' = team_ratings

C18_NoGamesEmptyResult == [][NoGamesStep]_vars

C18_Witness ==
    \E p \in Cmds :
        /\ cmd[p].pc = "done"
        /\ cmd[p].games = << >>
        /\ cmd[p].result = {}
        /\ ReplayGames(cmd[p].league, cmd[p].season) = {}
        /\ cmd[p].season > FirstSeason
        /\ TeamInfoKeys(cmd[p].league) # {}
        /\ PrevRows(cmd[p].league, cmd[p].season) # {}
        /\ team_ratings # {}

(***************************************************************************)
(* C19: a game whose home or away identifier cannot be normalised is       *)
(* skipped by the replay: it changes no team's rating and no team's games  *)
(* count, and every other game of the log is still processed, in order,    *)
(* with the same effect as if the skipped game were absent.  Two replays   *)
(* whose logs differ only in games that do not normalise are compared.     *)
(***************************************************************************)
Normalises(g, league) ==
    /\ Truthy(normalize_team_id(g.home_team_id, league))
    /\ Truthy(normalize_team_id(g.away_team_id, league))

Normalisable(q, league) == SelectSeq(q, LAMBDA g : Normalises(g, league))

GameIds(q) == [i \in DOMAIN q |-> q[i].game_id]

C19_SkippedGameHasNoEffect ==
    /\ \A p \in Cmds :
          cmd[p].pc = "loop"
          => cmd[p].processed =
                GameIds(Normalisable(SubSeq(cmd[p].games, 1, cmd[p].i - 1),
                                     cmd[p].league))
    /\ \A p, q \in Cmds :
          ( /\ LoopDone(p) /\ LoopDone(q)
            /\ Normalisable(cmd[p].games, cmd[p].league)
                 = Normalisable(cmd[q].games, cmd[q].league) )
          => /\ cmd[p].ratings = cmd[q].ratings
             /\ cmd[p].team_games_count = cmd[q].team_games_count
             /\ cmd[p].processed = cmd[q].processed

C19_Witness ==
    \E p, q \in Cmds :
        /\ LoopDone(p) /\ LoopDone(q)
        /\ \A i \in DOMAIN cmd[p].games : Normalises(cmd[p].games[i], cmd[p].league)
        /\ \E i, j \in DOMAIN cmd[q].games :
              /\ i < j
              /\ ~Normalises(cmd[q].games[i], cmd[q].league)
              /\ Normalises(cmd[q].games[j], cmd[q].league)
        /\ Len(cmd[q].processed) = Len(cmd[q].games) - 1
        /\ cmd[p].processed = cmd[q].processed
        /\ cmd[p].ratings = cmd[q].ratings

(***************************************************************************)
(* C20: normalize_team_id strips one leading "<LEAGUE>_" prefix, returns   *)
(* the empty identifier unchanged and an identifier without the prefix     *)
(* unchanged, and is idempotent: applied to its own output with the same   *)
(* league it returns that output again, for every identifier.              *)
(***************************************************************************)
HasPrefix(team_id, league) ==
    /\ Len(team_id) > 0
    /\ team_id[1] = Prefix(league)

C20_NormalizeIdempotent ==
    /\ wk.pc \in {"normalized", "renormalized"}
       => /\ HasPrefix(wk.team_id, wk.league)
             => wk.result = SubSeq(wk.team_id, 2, Len(wk.team_id))
          /\ ~HasPrefix(wk.team_id, wk.league) => wk.result = wk.team_id
    /\ wk.pc = "renormalized" => wk.again = wk.result

(***************************************************************************)
(* C21: identifier round trip at the storage boundary: for every           *)
(* rating-table key of a replay that has ended, the output holds a         *)
(* snapshot whose team_id is a team-table identifier with that canonical   *)
(* form, or "<LEAGUE>_<canonical>" when the team table has none, and       *)
(* normalising the team_id of every emitted snapshot gives back its key.   *)
(***************************************************************************)
OriginalsOf(p, t) ==
    { u.team_id : u \in { v \in teams :
                            /\ v.league = cmd[p].league
                            /\ normalize_team_id(v.team_id, cmd[p].league) = t } }

CarriesStoredId(p, t, r) ==
    /\ normalize_team_id(r.team_id, cmd[p].league) = t
    /\ IF OriginalsOf(p, t) # {}
       THEN r.team_id \in OriginalsOf(p, t)
       ELSE r.team_id = <<Prefix(cmd[p].league)>> \o t

PreGame(p, t) ==
    IF t \in DOMAIN cmd[p].ratings THEN cmd[p].ratings[t] ELSE cmd[p].base_rating

MonotoneStep ==
    \A p \in Cmds :
        ( /\ cmd[p].pc = "loop"
          /\ Len(cmd'[p].processed) > Len(cmd[p].processed) )
        => LET g == cmd[p].games[cmd[p].i]
               h == normalize_team_id(g.home_team_id, cmd[p].league)
               a == normalize_team_id(g.away_team_id, cmd[p].league)
           IN  ( /\ g.home_score > g.away_score
                 /\ PreGame(p, h) = PreGame(p, a) )
               => cmd'[p].ratings[h] > cmd'[p].ratings[a]

C22_HomeWinRaisesHomeAboveAway == [][MonotoneStep]_vars

(***************************************************************************)
(* C23: invalid numeric configuration is rejected with a configuration     *)
(* error before any game is replayed and before any rating state is        *)
(* created or changed.  The case checked is a negative k_factor of the     *)
(* compute command: the command either has not started or has failed with  *)
(* the configuration error, having read no game and holding no rating.     *)
(***************************************************************************)
C23_NegativeKFactorRejected ==
    \A p \in Cmds :
        cmd[p].k_factor < 0
        => \/ cmd[p].pc = "query"
           \/ /\ cmd[p].pc = "failed"
              /\ cmd[p].error = "ConfigurationError"
              /\ cmd[p].games = << >>
              /\ cmd[p].processed = << >>
              /\ cmd[p].ratings = EmptyMap
              /\ cmd[p].team_games_count = EmptyMap

(***************************************************************************)
(* C24: the feature key set is fixed per mode for every game: the          *)
(* week-cutoff mode returns exactly rating_diff, home_field_advantage,     *)
(* point_diff_diff and league_indicator (a training row has game_id        *)
(* added), the date-cutoff mode exactly rating_diff, home_field, season    *)
(* and week, whether or not any history exists for either team.            *)
(***************************************************************************)
WeekKeys == { "rating_diff", "home_field_advantage", "point_diff_diff",
              "league_indicator" }

ByIdKeys == { "rating_diff", "home_field", "season", "week" }

C24_FixedKeySetPerMode ==
    /\ wk.pc = "done"
       => /\ DOMAIN wk.features = WeekKeys
          /\ DOMAIN wk.row \in { {}, WeekKeys \cup {"game_id"} }
    /\ \A f \in Calls : byid[f].pc = "done" => DOMAIN byid[f].features = ByIdKeys

C24_Witness ==
    /\ wk.pc = "done"
    /\ wk.rating_rows = {}
    /\ wk.stats_rows = {}
    /\ DOMAIN wk.features = WeekKeys
    /\ \E f1, f2 \in Calls :
          /\ byid[f1].pc = "done" /\ DOMAIN byid[f1].ratings = {}
          /\ byid[f2].pc = "done" /\ DOMAIN byid[f2].ratings # {}
          /\ DOMAIN byid[f2].features = ByIdKeys

(***************************************************************************)
(* C25: the compute_features command, given the identifier of an existing  *)
(* game, with or without an --as-of date, obtains the feature vector of    *)
(* compute_game_features_by_id and ends without an error exit; only an     *)
(* unknown game id or a malformed date leads to the error exit.            *)
(***************************************************************************)
C25_ErrorExitOnlyForUnknownIdOrBadDate ==
    wk.pc = "exited"
    => /\ (wk.exit = 1) <=> ( \/ ~(\E g \in games : g.game_id = wk.game_id)
                               \/ ~AsOfParses(wk.as_of) )
       /\ (wk.exit = 0) => (DOMAIN wk.features = ByIdKeys)

(***************************************************************************)
(* C26: a team that is not in the rating table when one of its games is    *)
(* processed enters the table at exactly base_rating with games count 0    *)
(* immediately before that game's update, without mean reversion, and the  *)
(* ratings of all other teams are unchanged by its insertion.              *)
(***************************************************************************)
UnseenStep ==
    \A p \in Cmds :
        ( /\ cmd[p].pc = "loop"
          /\ Len(cmd'[p].processed) > Len(cmd[p].processed) )
        => LET g == cmd[p].games[cmd[p].i]
               h == normalize_team_id(g.home_team_id, cmd[p].league)
               a == normalize_team_id(g.away_team_id, cmd[p].league)
           IN  /\ DOMAIN cmd'[p].ratings = DOMAIN cmd[p].ratings \cup {h, a}
               /\ DOMAIN cmd'[p].team_games_count = DOMAIN cmd'[p].ratings
               /\ cmd'[p].home_change =
                     HomeChange(cmd[p].k_factor, g, PreGame(p, h), PreGame(p, a))
               /\ cmd'[p].away_change =
                     AwayChange(cmd[p].k_factor, g, PreGame(p, h), PreGame(p, a))
               /\ h \notin DOMAIN cmd[p].ratings
                  => /\ cmd'[p].ratings[h] = cmd[p].base_rating + cmd'[p].home_change
                     /\ cmd'[p].team_games_count[h] = 1
               /\ a \notin DOMAIN cmd[p].ratings
                  => /\ cmd'[p].ratings[a] = cmd[p].base_rating + cmd'[p].away_change
                     /\ cmd'[p].team_games_count[a] = 1
               /\ \A u \in DOMAIN cmd[p].ratings \ {h, a} :
                     /\ cmd'[p].ratings[u] = cmd[p].ratings[u]
                     /\ cmd'[p].team_games_count[u] = cmd[p].team_games_count[u]

C26_UnseenTeamEntersAtBase == [][UnseenStep]_vars

\* a run in which a team entered mid-replay while another team's rating had
\* already moved away from base_rating
C26_Witness ==
    \E p \in Cmds :
        /\ Len(cmd[p].processed) >= 2
        /\ \E t \in DOMAIN cmd[p].ratings :
              /\ t \notin TeamInfoKeys(cmd[p].league)
              /\ cmd[p].team_games_count[t] = 1
              /\ LET g == GameOf(cmd[p].processed[Len(cmd[p].processed)])
                 IN  t \in { normalize_team_id(g.home_team_id, cmd[p].league),
                             normalize_team_id(g.away_team_id, cmd[p].league) }
        /\ \E u \in DOMAIN cmd[p].ratings :
              /\ u \in TeamInfoKeys(cmd[p].league)
              /\ cmd[p].team_games_count[u] = 1
              /\ cmd[p].ratings[u] # cmd[p].base_rating

(***************************************************************************)
(* C27: if the replay or an upsert raises while the compute command runs,  *)
(* the session is rolled back and the rating store holds exactly the rows  *)
(* and values it held before the command started: the store changes only   *)
(* in the step in which a command ends without error.                      *)
(***************************************************************************)
RollbackStep ==
    /\ \A p \in Cmds :
          (cmd[p].pc # "failed" /\ cmd'[p].pc = "failed")
          => /\ team_ratings' = team_ratings
             /\ cmd'[p].exit = 1
             /\ cmd'[p].inserted = 0
    /\ team_ratings' # team_ratings
       => \E p \in Cmds : /\ cmd[p].pc = "loop"
                          /\ cmd'[p].pc = "done"
                          /\ cmd'[p].exit = 0

C27_FailedCommandLeavesStore == [][RollbackStep]_vars

C27_Witness ==
    /\ team_ratings # {}
    /\ \E p \in Cmds :
          /\ cmd[p].pc = "failed"
          /\ cmd[p].error = "TypeError"
          /\ Len(cmd[p].processed) >= 1
          /\ Cardinality(DOMAIN cmd[p].ratings) >= 2
    /\ \E p \in Cmds :
          /\ cmd[p].pc = "failed"
          /\ cmd[p].error = "AttributeError"

(***************************************************************************)
(* C28: the two replay paths agree: with no prior-season snapshots,        *)
(* canonical team identifiers and a game log whose week order agrees with  *)
(* its date order, the ratings compute_game_features_by_id builds for the  *)
(* two teams of a target game equal the ratings of compute_elo_ratings     *)
(* run over exactly the games dated before the target.                     *)
(***************************************************************************)
WeekOrderAgreesWithDateOrder(S) ==
    \A g1 \in S, g2 \in S :
        /\ g1.week < g2.week => g1.date <= g2.date
        /\ g1.date < g2.date => g1.week <= g2.week

Canonical(S, league) ==
    \A g \in S : \A id \in { g.home_team_id, g.away_team_id } :
        Truthy(id) /\ normalize_team_id(id, league) = id

SameReplay(p, f) ==
    /\ LoopDone(p)
    /\ byid[f].pc = "done"
    /\ Range(cmd[p].games) = Range(byid[f].games)
    /\ cmd[p].k_factor = k_factor_by_id
    /\ cmd[p].base_rating = base_rating_by_id * RatingScale
    /\ PrevRows(cmd[p].league, cmd[p].season) = {}
    /\ Canonical(Range(cmd[p].games) \cup {byid[f].game}, cmd[p].league)
    /\ WeekOrderAgreesWithDateOrder(Range(cmd[p].games))

C28_ReplayPathsAgree ==
    \A p \in Cmds, f \in Calls :
        SameReplay(p, f)
        => \A t \in { byid[f].game.home_team_id, byid[f].game.away_team_id } :
              /\ t \in DOMAIN cmd[p].ratings
              /\ cmd[p].ratings[t]
                   = RatingOr(byid[f].ratings, t, base_rating_by_id * RatingScale)

(***************************************************************************)
(* C29: in every output of compute_elo_ratings the emitted team_id values  *)
(* are pairwise distinct: different rating-table keys never map to the     *)
(* same stored identifier, whatever mix of prefixed and unprefixed         *)
(* identifiers the team table and the games hold, so the output of a       *)
(* replay has as many different team_id values as the replay has keys and  *)
(* an upsert writes no (league, season, team) row twice.                   *)
(***************************************************************************)
EmittedIds(p) == { r.team_id : r \in cmd[p].result }

CarryingSelectedKind(team_id) ==
    { r \in SnapshotsUpTo(team_id) : Col(r, RatingCol(wk.rating_type)) # Null }

C30_OtherKindRowHidesNothing ==
    wk.pc = "done"
    => /\ CarryingSelectedKind(wk.game.home_team_id) # {}
          => wk.home_rating # Null
       /\ CarryingSelectedKind(wk.game.away_team_id) # {}
          => wk.away_rating # Null

====
